---- MODULE Spec2Model ----
(***************************************************************************)
(* A model of download_class_dojo.py: the feed traversal (get_items,       *)
(* scrape), the snapshot helpers (save_json, load_json), the resolver      *)
(* (get_urls, get_name_from_url), the pooled downloader (download_urls,    *)
(* download) and main.                                                     *)
(*                                                                         *)
(* Python str values that the code takes apart (split, replace, strptime)  *)
(* are sequences of one-character strings; str values that are only        *)
(* compared (the feed URLs) are TLA+ strings.  An optional value (None or  *)
(* a value) is <<>> or <<v>>.                                              *)
(***************************************************************************)
EXTENDS Integers, Sequences, FiniteSets, TLC

(***************************************************************************)
(* Bounds of the model.                                                    *)
(***************************************************************************)
\* get_items calls after which the model stops a traversal that has not ended
MaxFetches == 4
\* longest response body of an attachment, in bytes
MaxBody == 2
\* longest URL, in characters, get_name_from_url is called with directly
MaxUrlLen == 5
\* longest item list of the cutoff inputs get_urls is called with directly
MaxFilterItems == 3
\* longest item list of the path inputs get_urls is called with directly
MaxPathItems == 2
\* width of the worker pool; line 47 sets 10, the model scales it down so
\* that task lists longer than the pool are reached
NUM_JOBS == 2

\* the longest item list that is saved and read back
MaxReloadItems == 2

(***************************************************************************)
(* str helpers.                                                            *)
(***************************************************************************)
Digits == <<"0", "1", "2", "3", "4", "5", "6", "7", "8", "9">>

IsDigit(c) == \E i \in 1..10 : Digits[i] = c

DigitVal(c) == (CHOOSE i \in 1..10 : Digits[i] = c) - 1

AllDigits(s) == \A i \in 1..Len(s) : IsDigit(s[i])

\* int(s) for a str of decimal digits
RECURSIVE ToInt(_)
ToInt(s) ==
    IF s = <<>> THEN 0
    ELSE 10 * ToInt(SubSeq(s, 1, Len(s) - 1)) + DigitVal(s[Len(s)])

\* str(n) for n >= 0
RECURSIVE ToStr(_)
ToStr(n) ==
    IF n < 10 THEN <<Digits[n + 1]>>
    ELSE ToStr(n \div 10) \o <<Digits[(n % 10) + 1]>>

\* the %m and %d of strftime: two digits, zero padded
Pad2(n) == IF n < 10 THEN <<"0">> \o ToStr(n) ELSE ToStr(n)

\* s.split(c): the pieces of s between the occurrences of c (never empty)
RECURSIVE split(_, _)
split(s, c) ==
    IF \A i \in 1..Len(s) : s[i] # c THEN <<s>>
    ELSE LET k == CHOOSE i \in 1..Len(s) :
                      s[i] = c /\ \A j \in 1..(i - 1) : s[j] # c
         IN  <<SubSeq(s, 1, k - 1)>> \o split(SubSeq(s, k + 1, Len(s)), c)

\* c.join(parts)
RECURSIVE join(_, _)
join(c, parts) ==
    IF parts = <<>> THEN <<>>
    ELSE IF Len(parts) = 1 THEN parts[1]
    ELSE parts[1] \o <<c>> \o join(c, Tail(parts))

\* s.replace(a, b) for one-character a and b
replace(s, a, b) == [i \in 1..Len(s) |-> IF s[i] = a THEN b ELSE s[i]]

(***************************************************************************)
(* datetime: a parsed datetime is the tuple                                *)
(* <<year, month, day, hour, minute, second, microsecond>>; strptime       *)
(* returns <<dt>>, or <<>> where Python raises ValueError.                 *)
(***************************************************************************)
IsLeap(y) == (y % 4 = 0 /\ y % 100 # 0) \/ y % 400 = 0

DaysInMonth(y, m) ==
    IF m = 2 THEN (IF IsLeap(y) THEN 29 ELSE 28)
    ELSE IF m \in {4, 6, 9, 11} THEN 30 ELSE 31

\* a field of one to n digits whose value lies in lo..hi
NumField(s, n, lo, hi) ==
    /\ Len(s) >= 1
    /\ Len(s) <= n
    /\ AllDigits(s)
    /\ ToInt(s) >= lo
    /\ ToInt(s) <= hi

\* %f: one to six digits, read as a fraction of a second
Micro(s) == ToInt(s \o [i \in 1..(6 - Len(s)) |-> "0"])

\* datetime.strptime(s, '%Y-%m-%dT%H:%M:%S.%fZ')
strptime_item(s) ==
    LET dt == split(s, "T")
        d  == split(dt[1], "-")
        t  == split(dt[2], ":")
        sf == split(t[3], ".")
        f  == sf[2]
        fr == SubSeq(f, 1, Len(f) - 1)
    IN  IF /\ Len(dt) = 2
           /\ Len(d) = 3
           /\ Len(t) = 3
           /\ Len(sf) = 2
           /\ Len(f) >= 2
           /\ f[Len(f)] = "Z"
           /\ Len(d[1]) = 4
           /\ AllDigits(d[1])
           /\ ToInt(d[1]) >= 1
           /\ NumField(d[2], 2, 1, 12)
           /\ NumField(d[3], 2, 1, 31)
           /\ ToInt(d[3]) <= DaysInMonth(ToInt(d[1]), ToInt(d[2]))
           /\ NumField(t[1], 2, 0, 23)
           /\ NumField(t[2], 2, 0, 59)
           /\ NumField(sf[1], 2, 0, 61)
           /\ NumField(fr, 6, 0, 999999)
        THEN << <<ToInt(d[1]), ToInt(d[2]), ToInt(d[3]),
                  ToInt(t[1]), ToInt(t[2]), ToInt(sf[1]), Micro(fr)>> >>
        ELSE <<>>

\* the %b names of the C locale
MonthAbbr ==
    << <<"J","a","n">>, <<"F","e","b">>, <<"M","a","r">>, <<"A","p","r">>,
       <<"M","a","y">>, <<"J","u","n">>, <<"J","u","l">>, <<"A","u","g">>,
       <<"S","e","p">>, <<"O","c","t">>, <<"N","o","v">>, <<"D","e","c">> >>

\* datetime.strptime(s, '%d-%b-%Y'): midnight of that day
strptime_after(s) ==
    LET p == split(s, "-")
    IN  IF /\ Len(p) = 3
           /\ \E m \in 1..12 : MonthAbbr[m] = p[2]
           /\ Len(p[3]) = 4
           /\ AllDigits(p[3])
           /\ ToInt(p[3]) >= 1
           /\ NumField(p[1], 2, 1, 31)
           /\ ToInt(p[1]) <= DaysInMonth(ToInt(p[3]),
                                 CHOOSE m \in 1..12 : MonthAbbr[m] = p[2])
        THEN << <<ToInt(p[3]), CHOOSE m \in 1..12 : MonthAbbr[m] = p[2],
                  ToInt(p[1]), 0, 0, 0, 0>> >>
        ELSE <<>>

\* a > b on datetimes: lexicographic on the seven fields
RECURSIVE TupleGt(_, _)
TupleGt(a, b) ==
    IF a = <<>> THEN FALSE
    ELSE IF Head(a) # Head(b) THEN Head(a) > Head(b)
    ELSE TupleGt(Tail(a), Tail(b))

\* dt.strftime('%m-%d-%Y')
strftime_mdy(dt) == Pad2(dt[2]) \o <<"-">> \o Pad2(dt[3]) \o <<"-">> \o ToStr(dt[1])

(***************************************************************************)
(* The resolver.  A FeedItem is a record                                   *)
(*   [time, headerSubtext, contents |-> [attachments |-> <<>> or <<list>>]]*)
(* and an attachment is [path, metadata |-> <<>> or <<[filename |-> <<>>   *)
(* or <<name>>]>>].                                                        *)
(***************************************************************************)
\* DESTINATION, line 41: './classdojo_output'
DESTINATION ==
    <<".", "/", "c", "l", "a", "s", "s", "d", "o", "j", "o", "_",
      "o", "u", "t", "p", "u", "t">>

\* AFTER_DATE, line 48: '1-Jul-2018'
AFTER_DATE == <<"1", "-", "J", "u", "l", "-", "2", "0", "1", "8">>

\* the name taken from the fifth element on
get_name_from_url_From4(url) ==
    LET parts == split(url, "/")
    IN  replace(join("_", SubSeq(parts, 5, Len(parts))), "-", "_")

\* get_name_from_url: '_'.join(url.split('/')[3:]).replace('-', '_')
get_name_from_url(url) ==
    LET parts == split(url, "/")
    IN  replace(join("_", SubSeq(parts, 4, Len(parts))), "-", "_")

\* the cutoff test with >= in place of >
Kept_Inclusive(dt_item, after_date) ==
    \/ after_date = <<>>
    \/ after_date[1] = <<>>
    \/ ~TupleGt(strptime_after(after_date[1])[1], dt_item)

\* line 151: not after_date or (dt_item > dt); after_date is <<>> (None) or <<str>>
Kept(dt_item, after_date) ==
    \/ after_date = <<>>
    \/ after_date[1] = <<>>
    \/ TupleGt(dt_item, strptime_after(after_date[1])[1])

\* the group label used as it is
GroupOf_Raw(item) == item.headerSubtext

\* line 154: item['headerSubtext'].replace('/', '_')
GroupOf(item) == replace(item.headerSubtext, "/", "_")

\* the hyphens of a metadata filename are replaced as well
FilenameOf_Hyphens(attachment) ==
    IF attachment.metadata # <<>> /\ attachment.metadata[1].filename # <<>>
    THEN replace(attachment.metadata[1].filename[1], "-", "_")
    ELSE get_name_from_url(attachment.path)

\* lines 158-161: the metadata filename if present, else the name from the URL
FilenameOf(attachment) ==
    IF attachment.metadata # <<>> /\ attachment.metadata[1].filename # <<>>
    THEN attachment.metadata[1].filename[1]
    ELSE get_name_from_url(attachment.path)

\* line 163: (url, f'{DESTINATION}/{group}/{dt_str}-{filename}')
TaskOf(root, group, dt_str, attachment) ==
    <<attachment.path,
      root \o <<"/">> \o group \o <<"/">> \o dt_str \o <<"-">> \o FilenameOf(attachment)>>

\* line 153: item['contents'].get('attachments', {})
AttachmentsOf(item) ==
    IF item.contents.attachments = <<>> THEN <<>> ELSE item.contents.attachments[1]

\* one task per kept item, for its first attachment
ItemTasks_FirstOnly(root, item, after_date) ==
    LET dt_item == strptime_item(item.time)[1]
        dt_str  == strftime_mdy(dt_item)
        att     == AttachmentsOf(item)
    IN  IF Kept(dt_item, after_date) /\ att # <<>>
        THEN <<TaskOf(root, GroupOf(item), dt_str, att[1])>>
        ELSE <<>>

\* lines 149-163: the tasks one item appends to urls
ItemTasks(root, item, after_date) ==
    LET dt_item == strptime_item(item.time)[1]
        dt_str  == strftime_mdy(dt_item)
        att     == AttachmentsOf(item)
    IN  IF Kept(dt_item, after_date) /\ att # <<>>
        THEN [i \in 1..Len(att) |-> TaskOf(root, GroupOf(item), dt_str, att[i])]
        ELSE <<>>

\* a strptime of get_urls raises ValueError
GetUrlsRaises(items, after_date) ==
    \/ /\ after_date # <<>>
       /\ after_date[1] # <<>>
       /\ strptime_after(after_date[1]) = <<>>
    \/ \E i \in 1..Len(items) : strptime_item(items[i].time) = <<>>

RECURSIVE UrlsFrom(_, _, _)
UrlsFrom(root, items, after_date) ==
    IF items = <<>> THEN <<>>
    ELSE ItemTasks(root, Head(items), after_date)
             \o UrlsFrom(root, Tail(items), after_date)

\* get_urls with the module global DESTINATION as a parameter
get_urls_in(root, items, after_date) ==
    IF GetUrlsRaises(items, after_date)
    THEN [raised |-> TRUE, urls |-> <<>>]
    ELSE [raised |-> FALSE, urls |-> UrlsFrom(root, items, after_date)]

\* get_urls(items, after_date)
get_urls(items, after_date) == get_urls_in(DESTINATION, items, after_date)

(***************************************************************************)
(* The remote feed.  A response to a GET of a feed URL is a record         *)
(*   [kind, status, has_items, items, links]                               *)
(* kind "network_error": requests.get raises; "malformed_json": the body   *)
(* is not JSON; "json": the body is a JSON object, with key _items iff     *)
(* has_items, and with _links of the shape links.shape:                    *)
(*   "no_links"  no _links key          "no_prev"  _links without prev     *)
(*   "prev_null" _links.prev is null    "href"     _links.prev.href given  *)
(***************************************************************************)
\* FEED_URL, line 40
FEED_URL == "https://home.classdojo.com/api/storyFeed?includePrivate=true"

\* the URLs the service hands out as cursors, besides FEED_URL
OlderUrls == {"https://home.classdojo.com/api/storyFeed?before=1",
              "https://home.classdojo.com/api/storyFeed?before=2"}

FeedUrls == {FEED_URL} \cup OlderUrls

\* lines 98-105: get_items raises (requests.get, resp.json(), None.get or
\* data['_items']); the HTTP status is not looked at
GetItemsRaises(page) ==
    \/ page.kind = "network_error"
    \/ page.kind = "malformed_json"
    \/ page.links.shape = "prev_null"
    \/ ~page.has_items

\* line 102: data.get('_links', {}).get('prev', {}).get('href')
PrevOf(page) ==
    IF page.links.shape = "href" THEN <<page.links.href>> ELSE <<>>

\* the loop test without the comparison with the head URL
LoopCond_NoHeadCheck(feed_url, prev) ==
    /\ prev # <<>>
    /\ prev[1] # ""

\* line 121: prev and feed_url != prev
LoopCond(feed_url, prev) ==
    /\ prev # <<>>
    /\ prev[1] # ""
    /\ feed_url # prev[1]

\* the new page's items replace the accumulated ones
Extend_Replace(list, new_items) == new_items

\* line 123: items.extend(new_items)
Extend(list, new_items) == list \o new_items

(***************************************************************************)
(* The snapshot file.  A JSON text is a sequence of tokens; json.dumps of  *)
(* a list brackets its elements, json.loads accepts only a complete text.  *)
(***************************************************************************)
Tok(t, v) == [t |-> t, v |-> v]

\* json.dumps(json_content, indent=4), line 69
dumps(list) ==
    <<Tok("[", <<>>)>> \o [i \in 1..Len(list) |-> Tok("item", <<list[i]>>)]
                       \o <<Tok("]", <<>>)>>

\* the list without its first element
loads_SkipFirst(text) ==
    IF /\ Len(text) >= 2
       /\ text[1].t = "["
       /\ text[Len(text)].t = "]"
    THEN << [i \in 1..(IF Len(text) > 3 THEN Len(text) - 3 ELSE 0) |->
                text[i + 2].v[1]] >>
    ELSE <<>>

\* json.loads(f.read()), line 82: <<list>>, or <<>> where it raises
loads(text) ==
    IF /\ Len(text) >= 2
       /\ text[1].t = "["
       /\ text[Len(text)].t = "]"
       /\ \A i \in 2..(Len(text) - 1) : text[i].t = "item"
    THEN << [i \in 1..(Len(text) - 2) |-> text[i + 1].v[1]] >>
    ELSE <<>>

\* filename.parents[0] of a path: the path up to its last '/'
ParentOf(path) ==
    LET ks == {i \in 1..Len(path) : path[i] = "/"}
    IN  IF ks = {} THEN <<".">>
        ELSE SubSeq(path, 1, (CHOOSE k \in ks : \A j \in ks : j <= k) - 1)

\* line 221: f'{DESTINATION}/data.json'
DataFilePath ==
    DESTINATION \o <<"/", "d", "a", "t", "a", ".", "j", "s", "o", "n">>

\* a write of body at offset 0 of a file holding content (no O_APPEND, the
\* file is not truncated again at write time)
WriteAt0(content, body) ==
    body \o SubSeq(content, Len(body) + 1, Len(content))

(***************************************************************************)
(* The inputs of the model: feed items, feed responses, operator answers.  *)
(***************************************************************************)
Url1 ==
    <<"h", "t", "t", "p", "s", ":", "/", "/", "h", "/", "b", "/", "x", "/",
      "p", "-", "1", ".", "j", "p", "g">>

Url2 ==
    <<"h", "t", "t", "p", "s", ":", "/", "/", "h", "/", "b", "/", "x", "/",
      "p", "-", "2", ".", "j", "p", "g">>

FPng == <<"f", ".", "p", "n", "g">>

IsoTime(y, m, d) ==
    y \o <<"-">> \o m \o <<"-">> \o d
      \o <<"T", "0", "0", ":", "0", "0", ":", "0", "0", ".", "0", "0", "0", "Z">>

Y2018 == <<"2", "0", "1", "8">>

Y2019 == <<"2", "0", "1", "9">>

Plain(url) == [path |-> url, metadata |-> <<>>]

Named(url, name) == [path |-> url, metadata |-> <<[filename |-> <<name>>]>>]

\* an attachment whose metadata object has no filename key
Unnamed(url) == [path |-> url, metadata |-> <<[filename |-> <<>>]>>]

\* before the cutoff, one attachment
ItemOld ==
    [time |-> IsoTime(Y2018, <<"0", "1">>, <<"0", "1">>),
     headerSubtext |-> <<"A", "/", "B">>,
     contents |-> [attachments |-> << <<Plain(Url1)>> >>]]

\* after the cutoff, one attachment without a metadata filename
ItemNew ==
    [time |-> IsoTime(Y2018, <<"0", "8">>, <<"0", "1">>),
     headerSubtext |-> <<"A", "/", "B">>,
     contents |-> [attachments |-> << <<Plain(Url1)>> >>]]

\* after the cutoff, two attachments of different URLs and the same filename
ItemPair ==
    [time |-> IsoTime(Y2019, <<"0", "1">>, <<"0", "1">>),
     headerSubtext |-> <<"A", "/", "B">>,
     contents |-> [attachments |-> << <<Named(Url1, FPng), Named(Url2, FPng)>> >>]]

\* after the cutoff, no attachments key
ItemText ==
    [time |-> IsoTime(Y2019, <<"0", "1">>, <<"0", "1">>),
     headerSubtext |-> <<"A", "/", "B">>,
     contents |-> [attachments |-> <<>>]]

NoLinks == [shape |-> "no_links", href |-> ""]

Href(u) == [shape |-> "href", href |-> u]

JsonPage(status, has_items, its, links) ==
    [kind |-> "json", status |-> status, has_items |-> has_items,
     items |-> its, links |-> links]

ErrorPage(kind) ==
    [kind |-> kind, status |-> 0, has_items |-> FALSE, items |-> <<>>,
     links |-> NoLinks]

\* the _links shapes a response may carry
LinkShapes ==
    {NoLinks, [shape |-> "no_prev", href |-> ""],
     [shape |-> "prev_null", href |-> ""], Href("")}
        \cup {Href(u) : u \in FeedUrls}

\* the _items arrays a response of URL u may carry: the feed runs back in
\* time, the head page holds the newest items
PageItemLists(u) ==
    IF u = FEED_URL THEN {<<>>, <<ItemNew>>, <<ItemText, ItemNew>>}
    ELSE {<<>>, <<ItemOld>>}

\* the responses of the service to a GET of URL u
FeedPages(u) ==
    {ErrorPage("network_error"), ErrorPage("malformed_json")}
        \cup {JsonPage(st, TRUE, its, l) :
                 st \in {200, 500}, its \in PageItemLists(u), l \in LinkShapes}
        \cup {JsonPage(st, FALSE, <<>>, NoLinks) : st \in {200, 500}}

\* what the operator may type at the prompt
Answers == {<<>>, <<"n">>, <<"N">>, <<"y">>, <<"n", "o">>}

\* str.upper() on the letters of Answers
UpperChar(c) ==
    IF c = "n" THEN "N" ELSE IF c = "y" THEN "Y" ELSE IF c = "o" THEN "O" ELSE c

upper(s) == [i \in 1..Len(s) |-> UpperChar(s[i])]

\* the item lists an earlier run may have left in the snapshot
OldLists == {<<ItemOld>>, <<ItemPair>>, <<ItemPair, ItemText, ItemNew>>}

(***************************************************************************)
(* The state of one run of the program.                                    *)
(***************************************************************************)
VARIABLES
    feed,       \* the service: the response of each feed URL fetched so far
    pc,         \* where main is
    answer,     \* <<>> while no prompt was shown, else <<what was typed>>
    data_file,  \* the snapshot file: <<>> absent, else <<its text>>
    dirs,       \* the directories that exist
    files,      \* the attachment files that exist: path -> content
    cur,        \* scrape: the URL of the next get_items call
    items,      \* scrape, main: the accumulated item list
    prev,       \* scrape: the last cursor, <<>> for None
    fetched,    \* the URLs get_items was called with, in call order
    urls,       \* main: the DownloadTask list
    submitted,  \* download_urls: how many futures executor.submit has made
    task,       \* the state of each future
    resp,       \* download: the response body each task received
    wlog,       \* the tasks whose f.write completed, in completion order
    yielded,    \* the futures as_completed has yielded
    pbar,       \* the progress counter
    call,       \* a direct call of a pure function: its arguments
    ret         \* that call's result, <<>> until it has returned

vars ==
    <<feed, pc, answer, data_file, dirs, files, cur, items, prev, fetched,
      urls, submitted, task, resp, wlog, yielded, pbar, call, ret>>

scrapeVars == <<cur, items, prev, fetched>>

pureVars == <<call, ret>>

poolVars == <<submitted, task, resp, wlog, yielded, pbar>>

NoFeed == [u \in {} |-> ErrorPage("network_error")]

NoFiles == [p \in {} |-> <<>>]

\* no pure function is being called directly
NoCall == [fn |-> "none"]

Init ==
    /\ feed = NoFeed
    /\ pc = "main"
    /\ answer = <<>>
    /\ data_file \in {<<>>} \cup {<<dumps(l)>> : l \in OldLists}
    /\ dirs = IF data_file = <<>> THEN {} ELSE {ParentOf(DataFilePath)}
    /\ files = NoFiles
    /\ cur = FEED_URL
    /\ items = <<>>
    /\ prev = <<>>
    /\ fetched = <<>>
    /\ urls = <<>>
    /\ submitted = 0
    /\ task = <<>>
    /\ resp = <<>>
    /\ wlog = <<>>
    /\ yielded = {}
    /\ pbar = 0
    /\ call = NoCall
    /\ ret = <<>>

(***************************************************************************)
(* main, lines 220-227.                                                    *)
(***************************************************************************)
\* line 224: input(...).upper() == 'N'
\* the answer compared as typed, without upper()
SaysNo_AsTyped(a) == a = <<"n">>

\* line 224: input(...).upper() == 'N'
SaysNo(a) == upper(a) = <<"N">>

\* lines 224-225: the snapshot exists and the operator declines to rescrape
MainReuse ==
    /\ pc = "main"
    /\ data_file # <<>>
    /\ \E a \in Answers :
          /\ SaysNo(a)
          /\ answer' = <<a>>
    /\ IF loads(data_file[1]) = <<>>
       THEN pc' = "crashed" /\ items' = items
       ELSE pc' = "get_urls" /\ items' = loads(data_file[1])[1]
    /\ UNCHANGED pureVars
    /\ UNCHANGED <<feed, data_file, dirs, files, cur, prev, fetched, urls,
                   poolVars>>

\* lines 224, 227: no snapshot (no prompt is shown), or any other answer
MainScrape ==
    /\ pc = "main"
    /\ \/ data_file = <<>> /\ answer' = <<>>
       \/ data_file # <<>> /\ \E a \in Answers : ~SaysNo(a) /\ answer' = <<a>>
    /\ pc' = "get_items"
    /\ cur' = FEED_URL
    /\ UNCHANGED pureVars
    /\ UNCHANGED <<feed, data_file, dirs, files, items, prev, fetched, urls,
                   poolVars>>

(***************************************************************************)
(* scrape, lines 118-128: one get_items call and the loop test after it.   *)
(***************************************************************************)
\* the loop also ends at a cursor that has been fetched before
GetItems_StopAtVisited ==
    /\ pc = "get_items"
    /\ Len(fetched) < MaxFetches
    /\ \E page \in (IF cur \in DOMAIN feed THEN {feed[cur]} ELSE FeedPages(cur)) :
          /\ feed' = IF cur \in DOMAIN feed THEN feed ELSE feed @@ (cur :> page)
          /\ fetched' = Append(fetched, cur)
          /\ IF GetItemsRaises(page)
             THEN /\ pc' = "crashed"
                  /\ UNCHANGED <<cur, items, prev>>
             ELSE /\ items' = Extend(items, page.items)
                  /\ prev' = PrevOf(page)
                  /\ IF /\ LoopCond(FEED_URL, PrevOf(page))
                        /\ \A k \in 1..Len(fetched') : fetched'[k] # PrevOf(page)[1]
                     THEN pc' = pc /\ cur' = PrevOf(page)[1]
                     ELSE pc' = "save_json" /\ cur' = cur
    /\ UNCHANGED pureVars
    /\ UNCHANGED <<answer, data_file, dirs, files, urls, poolVars>>

GetItems ==
    /\ pc = "get_items"
    /\ Len(fetched) < MaxFetches
    /\ \E page \in (IF cur \in DOMAIN feed THEN {feed[cur]} ELSE FeedPages(cur)) :
          /\ feed' = IF cur \in DOMAIN feed THEN feed ELSE feed @@ (cur :> page)
          /\ fetched' = Append(fetched, cur)
          /\ IF GetItemsRaises(page)
             THEN /\ pc' = "crashed"
                  /\ UNCHANGED <<cur, items, prev>>
             ELSE /\ items' = Extend(items, page.items)
                  /\ prev' = PrevOf(page)
                  /\ IF LoopCond(FEED_URL, PrevOf(page))
                     THEN pc' = pc /\ cur' = PrevOf(page)[1]
                     ELSE pc' = "save_json" /\ cur' = cur
    /\ UNCHANGED pureVars
    /\ UNCHANGED <<answer, data_file, dirs, files, urls, poolVars>>

\* save_json, lines 64-69, called from line 126; scrape then returns items
SaveJson ==
    /\ pc = "save_json"
    /\ \/ \* mkdir raises
          /\ pc' = "crashed"
          /\ UNCHANGED <<dirs, data_file>>
       \/ \* open raises
          /\ pc' = "crashed"
          /\ dirs' = dirs \cup {ParentOf(DataFilePath)}
          /\ UNCHANGED data_file
       \/ \* open truncates the file, the write raises part way
          /\ pc' = "crashed"
          /\ dirs' = dirs \cup {ParentOf(DataFilePath)}
          /\ \E k \in 0..(Len(dumps(items)) - 1) :
                data_file' = <<SubSeq(dumps(items), 1, k)>>
       \/ \* the file is written and closed
          /\ pc' = "get_urls"
          /\ dirs' = dirs \cup {ParentOf(DataFilePath)}
          /\ data_file' = <<dumps(items)>>
    /\ UNCHANGED pureVars
    /\ UNCHANGED <<feed, answer, files, scrapeVars, urls, poolVars>>

\* main, line 230
GetUrls ==
    /\ pc = "get_urls"
    /\ LET r == get_urls(items, <<AFTER_DATE>>)
       IN  IF r.raised
           THEN pc' = "crashed" /\ UNCHANGED <<urls, task, resp>>
           ELSE /\ pc' = "download_urls"
                /\ urls' = r.urls
                /\ task' = [i \in 1..Len(r.urls) |-> "pending"]
                /\ resp' = [i \in 1..Len(r.urls) |-> <<>>]
    /\ UNCHANGED pureVars
    /\ UNCHANGED <<feed, answer, data_file, dirs, files, scrapeVars,
                   submitted, wlog, yielded, pbar>>

(***************************************************************************)
(* download_urls, lines 191-198, and download, lines 214-218.  A future is *)
(* "pending" (not yet submitted), "queued", "opened" (its worker holds the *)
(* open destination file), "fetched" (the response has arrived), and       *)
(* finished as "ok" or as "failed" (download raised; the executor stores   *)
(* the exception in the future).                                           *)
(***************************************************************************)
Tasks == 1..Len(urls)

Running == {t \in Tasks : task[t] \in {"opened", "fetched"}}

Finished == {t \in Tasks : task[t] \in {"ok", "failed"}}

DestOf(t) == urls[t][2]

\* the response bodies task t may receive: 1..MaxBody bytes, each tagged t
Bodies(t) == {[i \in 1..n |-> t] : n \in 1..MaxBody}

\* open(filename, 'wb'), line 216: the file is created or truncated
Truncated(fs, path) ==
    [p \in DOMAIN fs \cup {path} |-> IF p = path THEN <<>> ELSE fs[p]]

\* f.write(body) and the close that flushes it, lines 216-218
Written(fs, path, body) ==
    [p \in DOMAIN fs |-> IF p = path THEN WriteAt0(fs[p], body) ELSE fs[p]]

\* line 194: executor.submit of the next task of urls
Submit ==
    /\ pc = "download_urls"
    /\ submitted < Len(urls)
    /\ submitted' = submitted + 1
    /\ task' = [task EXCEPT ![submitted + 1] = "queued"]
    /\ UNCHANGED pureVars
    /\ UNCHANGED <<feed, pc, answer, data_file, dirs, files, scrapeVars, urls,
                   resp, wlog, yielded, pbar>>

\* a call is started as soon as it is the oldest queued one
CanStart_NoPoolWidth(t) ==
    /\ task[t] = "queued"
    /\ \A u \in Tasks : u < t => task[u] # "queued"

\* a free worker of the pool takes the oldest queued call
CanStart(t) ==
    /\ task[t] = "queued"
    /\ \A u \in Tasks : u < t => task[u] # "queued"
    /\ Cardinality(Running) < NUM_JOBS

\* lines 214-216: mkdir of the parent, then open
DlOpen(t) ==
    /\ pc = "download_urls"
    /\ CanStart(t)
    /\ \/ \* mkdir raises
          /\ task' = [task EXCEPT ![t] = "failed"]
          /\ UNCHANGED <<dirs, files>>
       \/ \* open raises
          /\ task' = [task EXCEPT ![t] = "failed"]
          /\ dirs' = dirs \cup {ParentOf(DestOf(t))}
          /\ UNCHANGED files
       \/ /\ task' = [task EXCEPT ![t] = "opened"]
          /\ dirs' = dirs \cup {ParentOf(DestOf(t))}
          /\ files' = Truncated(files, DestOf(t))
    /\ UNCHANGED pureVars
    /\ UNCHANGED <<feed, pc, answer, data_file, scrapeVars, urls, submitted,
                   resp, wlog, yielded, pbar>>

\* a download whose request raised is put back into the queue
DlFetch_Requeue(t) ==
    /\ pc = "download_urls"
    /\ task[t] = "opened"
    /\ \/ /\ task' = [task EXCEPT ![t] = "queued"]
          /\ UNCHANGED resp
       \/ \E b \in Bodies(t) :
             /\ resp' = [resp EXCEPT ![t] = b]
             /\ task' = [task EXCEPT ![t] = "fetched"]
    /\ UNCHANGED pureVars
    /\ UNCHANGED <<feed, pc, answer, data_file, dirs, files, scrapeVars, urls,
                   submitted, wlog, yielded, pbar>>

\* line 217: requests.get returns a response or raises; on a raise the with
\* block closes the file
DlFetch(t) ==
    /\ pc = "download_urls"
    /\ task[t] = "opened"
    /\ \/ /\ task' = [task EXCEPT ![t] = "failed"]
          /\ UNCHANGED resp
       \/ \E b \in Bodies(t) :
             /\ resp' = [resp EXCEPT ![t] = b]
             /\ task' = [task EXCEPT ![t] = "fetched"]
    /\ UNCHANGED pureVars
    /\ UNCHANGED <<feed, pc, answer, data_file, dirs, files, scrapeVars, urls,
                   submitted, wlog, yielded, pbar>>

\* line 218 and the end of the with block: the body reaches the file, or
\* the write raises part way
DlWrite(t) ==
    /\ pc = "download_urls"
    /\ task[t] = "fetched"
    /\ \/ /\ task' = [task EXCEPT ![t] = "ok"]
          /\ files' = Written(files, DestOf(t), resp[t])
          /\ wlog' = Append(wlog, t)
       \/ /\ task' = [task EXCEPT ![t] = "failed"]
          /\ \E k \in 0..(Len(resp[t]) - 1) :
                files' = Written(files, DestOf(t), SubSeq(resp[t], 1, k))
          /\ UNCHANGED wlog
    /\ UNCHANGED pureVars
    /\ UNCHANGED <<feed, pc, answer, data_file, dirs, scrapeVars, urls,
                   submitted, resp, yielded, pbar>>

\* as_completed that yields only the futures that succeeded
AsCompleted_OnlyOk ==
    /\ pc = "download_urls"
    /\ submitted = Len(urls)
    /\ \E t \in {f \in Finished : task[f] = "ok"} \ yielded :
          yielded' = yielded \cup {t}
    /\ pbar' = pbar + 1
    /\ UNCHANGED pureVars
    /\ UNCHANGED <<feed, pc, answer, data_file, dirs, files, scrapeVars, urls,
                   submitted, task, resp, wlog>>

\* the loop body asks the yielded future for its result, which raises the
\* exception of a failed download in the caller
AsCompleted_Result ==
    /\ pc = "download_urls"
    /\ submitted = Len(urls)
    /\ \E t \in Finished \ yielded :
          /\ yielded' = yielded \cup {t}
          /\ IF task[t] = "failed"
             THEN pc' = "crashed" /\ pbar' = pbar
             ELSE pc' = pc /\ pbar' = pbar + 1
    /\ UNCHANGED pureVars
    /\ UNCHANGED <<feed, answer, data_file, dirs, files, scrapeVars, urls,
                   submitted, task, resp, wlog>>

\* the loop runs over the futures themselves, finished or not
AsCompleted_Any ==
    /\ pc = "download_urls"
    /\ submitted = Len(urls)
    /\ \E t \in Tasks \ yielded : yielded' = yielded \cup {t}
    /\ pbar' = pbar + 1
    /\ UNCHANGED pureVars
    /\ UNCHANGED <<feed, pc, answer, data_file, dirs, files, scrapeVars, urls,
                   submitted, task, resp, wlog>>

\* lines 197-198: as_completed yields a finished future, pbar.update(1)
AsCompleted ==
    /\ pc = "download_urls"
    /\ submitted = Len(urls)
    /\ \E t \in Finished \ yielded : yielded' = yielded \cup {t}
    /\ pbar' = pbar + 1
    /\ UNCHANGED pureVars
    /\ UNCHANGED <<feed, pc, answer, data_file, dirs, files, scrapeVars, urls,
                   submitted, task, resp, wlog>>

\* the with blocks of lines 191-193 end: download_urls returns
DownloadUrlsReturn ==
    /\ pc = "download_urls"
    /\ submitted = Len(urls)
    /\ yielded = Tasks
    /\ pc' = "print_done"
    /\ UNCHANGED pureVars
    /\ UNCHANGED <<feed, answer, data_file, dirs, files, scrapeVars, urls,
                   poolVars>>

\* main, line 234: print('Done!')
MainDone ==
    /\ pc = "print_done"
    /\ pc' = "done"
    /\ UNCHANGED pureVars
    /\ UNCHANGED <<feed, answer, data_file, dirs, files, scrapeVars, urls,
                   poolVars>>

Download == \E t \in Tasks : DlOpen(t) \/ DlFetch(t) \/ DlWrite(t)

Next ==
    \/ MainReuse
    \/ MainScrape
    \/ GetItems
    \/ SaveJson
    \/ GetUrls
    \/ Submit
    \/ \E t \in Tasks : DlOpen(t)
    \/ \E t \in Tasks : DlFetch(t)
    \/ \E t \in Tasks : DlWrite(t)
    \/ AsCompleted
    \/ DownloadUrlsReturn
    \/ MainDone

Spec == Init /\ [][Next]_vars

\* The pool's workers and the main thread are separate processes that the
\* operating system schedules fairly: a step that stays possible is taken.
LiveSpec ==
    /\ Spec
    /\ WF_vars(Submit)
    /\ WF_vars(Download)
    /\ WF_vars(AsCompleted)
    /\ WF_vars(DownloadUrlsReturn)
    /\ WF_vars(MainDone)

(***************************************************************************)
(* Traversal claims.                                                       *)
(***************************************************************************)
\* the cursor a page of the feed carries, <<>> for an absent or null one
CursorAt(u) ==
    IF feed[u].links.shape = "href" THEN <<feed[u].links.href>> ELSE <<>>

\* URL u is known to answer with a well-formed page
Served(u) ==
    /\ u \in DOMAIN feed
    /\ feed[u].kind = "json"
    /\ feed[u].has_items
    /\ feed[u].links.shape \in {"no_links", "no_prev", "href"}

\* the number of hops after which the cursor chain from u ends in an absent
\* cursor or comes back to the head URL, if it does so within k hops; else 0
RECURSIVE HopsToEnd(_, _)
HopsToEnd(u, k) ==
    IF k = 0 \/ ~Served(u) THEN 0
    ELSE IF CursorAt(u) = <<>> \/ CursorAt(u) = <<FEED_URL>> THEN 1
    ELSE LET r == HopsToEnd(CursorAt(u)[1], k - 1)
         IN  IF r = 0 THEN 0 ELSE r + 1

RECURSIVE ConcatPages(_)
ConcatPages(us) ==
    IF us = <<>> THEN <<>>
    ELSE feed[Head(us)].items \o ConcatPages(Tail(us))

RECURSIVE SumPageLens(_)
SumPageLens(us) ==
    IF us = <<>> THEN 0
    ELSE Len(feed[Head(us)].items) + SumPageLens(Tail(us))

\* scrape has run and has returned its list to main
ScrapeReturned ==
    /\ fetched # <<>>
    /\ pc \in {"get_urls", "download_urls", "print_done", "done"}

\* C2: once scrape has returned, its list is the concatenation of the _items
\* arrays of the pages fetched, in fetch order, its length is the sum of
\* their lengths, and the snapshot holds that same list.
C2_TraversalComplete ==
    ScrapeReturned =>
        /\ items = ConcatPages(fetched)
        /\ Len(items) = SumPageLens(fetched)
        /\ data_file # <<>>
        /\ loads(data_file[1]) = <<items>>

\* two pages, two items on the head page and one on the older page
C2_Witness ==
    /\ pc = "get_urls"
    /\ Len(fetched) = 2
    /\ Len(feed[fetched[1]].items) = 2
    /\ Len(feed[fetched[2]].items) = 1
    /\ items = <<ItemText, ItemNew, ItemOld>>

(***************************************************************************)
(* Downloader claims.                                                      *)
(***************************************************************************)
\* C3: under fair scheduling, once download_urls has been entered all N
\* futures finish (ok or failed), the progress counter equals N and
\* download_urls returns; the counter moves only by one, and only while it
\* is below N, so it reaches N once and stays there.
C3_AllTasksComplete ==
    /\ (pc = "download_urls") ~>
           (pc = "print_done" /\ pbar = Len(urls) /\ Finished = Tasks)
    /\ [][pbar' # pbar => (pbar < Len(urls) /\ pbar' = pbar + 1)]_vars

\* three tasks on two workers, one of them failed, download_urls returned
C3_Witness ==
    /\ pc = "print_done"
    /\ Len(urls) = 3
    /\ Len(urls) > NUM_JOBS
    /\ pbar = 3
    /\ \E t \in Tasks : task[t] = "failed"

\* C4: a download that raises ends only its own future: in the step that
\* fails it no other future changes and main stays in download_urls, and
\* from then on every future still finishes and main prints 'Done!'.
C4_FailureIsolated ==
    /\ [][\A t \in Tasks :
             (task[t] # "failed" /\ task'[t] = "failed") =>
                 /\ pc' = pc
                 /\ \A u \in Tasks \ {t} : task'[u] = task[u]]_vars
    /\ [][pc = "download_urls" => pc' # "crashed"]_vars
    /\ (pc = "download_urls" /\ \E t \in Tasks : task[t] = "failed") ~>
           (pc = "done" /\ Finished = Tasks)

\* the first task failed while the others were queued or running, the
\* others succeeded, and main printed 'Done!'
C4_Witness ==
    /\ pc = "done"
    /\ Len(urls) = 3
    /\ task[1] = "failed"
    /\ task[2] = "ok"
    /\ task[3] = "ok"

\* the task whose f.write on path d completed last
LastWriter(d) ==
    LET ks == {i \in 1..Len(wlog) : DestOf(wlog[i]) = d}
    IN  wlog[CHOOSE k \in ks : \A j \in ks : j <= k]

\* C5: when two tasks of the same destination have both succeeded, the file
\* holds exactly the response body of the one that wrote last.
C5_LastWriteWins ==
    \A t, u \in Tasks :
        (/\ pc = "done"
         /\ t # u
         /\ DestOf(t) = DestOf(u)
         /\ task[t] = "ok"
         /\ task[u] = "ok") =>
            files[DestOf(t)] = resp[LastWriter(DestOf(t))]

(***************************************************************************)
(* Failure and snapshot claims.                                            *)
(***************************************************************************)
\* a fetch that failed: no response, a body that is not JSON, a body
\* without _items, or a status outside 2xx
FailedFetch(page) ==
    \/ page.kind \in {"network_error", "malformed_json"}
    \/ ~page.has_items
    \/ page.status < 200
    \/ page.status > 299

\* C6: a failed feed fetch is the last fetch of the run: the program has
\* stopped with the error, scrape returned nothing and no download started.
C6_FailedFetchFatal ==
    \A i \in 1..Len(fetched) :
        FailedFetch(feed[fetched[i]]) =>
            /\ i = Len(fetched)
            /\ pc = "crashed"
            /\ urls = <<>>
            /\ submitted = 0

\* C7: the snapshot file is absent, or holds the complete list of an
\* earlier traversal, or holds the complete list of this traversal.
C7_SnapshotNeverPartial ==
    \/ data_file = <<>>
    \/ \E l \in OldLists : data_file = <<dumps(l)>>
    \/ /\ pc \in {"get_urls", "download_urls", "print_done", "done", "crashed"}
       /\ data_file = <<dumps(items)>>

(***************************************************************************)
(* Direct calls of the pure functions get_urls and get_name_from_url, on   *)
(* inputs drawn from bounded sets.  A time of day is given by its fields   *)
(* <<year, month, day, hour, minute, second, millisecond>>, kept in the    *)
(* call beside the text built from them.                                   *)
(***************************************************************************)
TwoDigits(n) == <<Digits[(n \div 10) + 1], Digits[(n % 10) + 1]>>

FourDigits(n) == TwoDigits(n \div 100) \o TwoDigits(n % 100)

ThreeDigits(n) == <<Digits[(n \div 100) + 1]>> \o TwoDigits(n % 100)

\* the ISO-8601 text of a time, with milliseconds, as the feed sends it
FormatIso(c) ==
    FourDigits(c[1]) \o <<"-">> \o TwoDigits(c[2]) \o <<"-">> \o TwoDigits(c[3])
        \o <<"T">> \o TwoDigits(c[4]) \o <<":">> \o TwoDigits(c[5])
        \o <<":">> \o TwoDigits(c[6]) \o <<".">> \o ThreeDigits(c[7]) \o <<"Z">>

T_2018_01_01 == <<2018, 1, 1, 0, 0, 0, 0>>

T_2018_08_01 == <<2018, 8, 1, 0, 0, 0, 0>>

T_2019_01_01 == <<2019, 1, 1, 0, 0, 0, 0>>

T_2020_05_10 == <<2020, 5, 10, 0, 0, 0, 0>>

\* around midnight of 1 July 2018
FilterTimes ==
    {T_2018_01_01, <<2018, 6, 30, 23, 59, 59, 999>>, <<2018, 7, 1, 0, 0, 0, 0>>,
     <<2018, 7, 1, 0, 0, 0, 1>>, T_2018_08_01, T_2019_01_01, T_2020_05_10}

May10 == <<"1", "0", "-", "M", "a", "y", "-", "2", "0", "2", "0">>

\* after_date values: None, AFTER_DATE and '10-May-2020', with the day meant
Cutoffs ==
    {[text |-> <<>>, day |-> <<>>],
     [text |-> <<AFTER_DATE>>, day |-> <<2018, 7, 1>>],
     [text |-> <<May10>>, day |-> <<2020, 5, 10>>]}

\* the URL of the attachment of the i-th item of a cutoff input
ItemUrl(i) ==
    <<"h", "t", "t", "p", "s", ":", "/", "/", "h", "/", "b", "/">> \o ToStr(i)

FilterItem(c, i) ==
    [time |-> FormatIso(c),
     headerSubtext |-> <<"C">>,
     contents |-> [attachments |-> << <<Plain(ItemUrl(i))>> >>]]

SeqsUpTo(S, n) == UNION {[1..k -> S] : k \in 0..n}

FilterCalls ==
    {[fn |-> "get_urls", root |-> DESTINATION,
      items |-> [i \in 1..Len(ts) |-> FilterItem(ts[i], i)],
      after_date |-> cut.text, times |-> ts, day |-> cut.day] :
        ts \in SeqsUpTo(FilterTimes, MaxFilterItems), cut \in Cutoffs}

RoomAB == <<"R", "o", "o", "m", " ", "A", "/", "B">>

ImgPng == <<"i", "m", "g", ".", "p", "n", "g">>

Out == <<"o", "u", "t">>

PathHeaders == {RoomAB, <<"/", "a", "/">>}

PathAttachments ==
    {<<>>, << <<>> >>, << <<Named(Url1, ImgPng)>> >>, << <<Plain(Url1)>> >>,
     << <<Named(Url2, <<"f", "-", "1">>), Plain(Url2)>> >>,
     << <<Unnamed(Url1)>> >>}

PathTimes == {T_2020_05_10, <<2019, 12, 31, 23, 59, 59, 999>>}

PathItems ==
    {[c |-> c, item |-> [time |-> FormatIso(c), headerSubtext |-> h,
                         contents |-> [attachments |-> a]]] :
        c \in PathTimes, h \in PathHeaders, a \in PathAttachments}

PathCalls ==
    {[fn |-> "get_urls", root |-> r,
      items |-> [i \in 1..Len(ps) |-> ps[i].item],
      after_date |-> cut.text, times |-> [i \in 1..Len(ps) |-> ps[i].c],
      day |-> cut.day] :
        ps \in SeqsUpTo(PathItems, MaxPathItems) \ {<<>>},
        r \in {DESTINATION, Out},
        cut \in {c \in Cutoffs : c.text # <<May10>>}}

ExampleUrl ==
    <<"h", "t", "t", "p", "s", ":", "/", "/", "h", "o", "s", "t", "/",
      "b", "u", "c", "k", "e", "t", "/", "x", "/", "y", "/",
      "p", "h", "o", "t", "o", "-", "1", ".", "j", "p", "g">>

NameCalls ==
    {[fn |-> "get_name_from_url", url |-> u] :
        u \in SeqsUpTo({"/", "-", "a"}, MaxUrlLen) \cup {ExampleUrl, Url1}}

\* item lists that are resolved before and after save_json and load_json
ReloadCalls ==
    {[fn |-> "reload", root |-> DESTINATION,
      items |-> [i \in 1..Len(ps) |-> ps[i].item],
      after_date |-> cut.text, times |-> [i \in 1..Len(ps) |-> ps[i].c],
      day |-> cut.day] :
        ps \in SeqsUpTo({p \in PathItems : p.item.headerSubtext = RoomAB},
                        MaxReloadItems),
        cut \in Cutoffs}

PureInit ==
    /\ call \in FilterCalls \cup PathCalls \cup NameCalls \cup ReloadCalls
    /\ ret = <<>>
    /\ feed = NoFeed
    /\ pc = "imported"
    /\ answer = <<>>
    /\ data_file = <<>>
    /\ dirs = {}
    /\ files = NoFiles
    /\ cur = FEED_URL
    /\ items = <<>>
    /\ prev = <<>>
    /\ fetched = <<>>
    /\ urls = <<>>
    /\ submitted = 0
    /\ task = <<>>
    /\ resp = <<>>
    /\ wlog = <<>>
    /\ yielded = {}
    /\ pbar = 0

programVars ==
    <<feed, pc, answer, data_file, dirs, files, scrapeVars, urls, poolVars>>

\* get_urls(items, after_date) is called and returns
CallGetUrls ==
    /\ call.fn \in {"get_urls", "reload"}
    /\ ret = <<>>
    /\ ret' = <<get_urls_in(call.root, call.items, call.after_date)>>
    /\ UNCHANGED <<call, programVars>>

\* get_name_from_url(url) is called and returns
CallGetName ==
    /\ call.fn = "get_name_from_url"
    /\ ret = <<>>
    /\ ret' = <<get_name_from_url(call.url)>>
    /\ UNCHANGED <<call, programVars>>

\* save_json(items, data_file) is called and returns: lines 65-69
CallSaveJson ==
    /\ call.fn = "reload"
    /\ data_file = <<>>
    /\ dirs' = dirs \cup {ParentOf(DataFilePath)}
    /\ data_file' = <<dumps(call.items)>>
    /\ UNCHANGED <<call, ret, feed, pc, answer, files, scrapeVars, urls, poolVars>>

\* get_urls(load_json(data_file), after_date) is called and returns
CallLoadGetUrls ==
    /\ call.fn = "reload"
    /\ data_file # <<>>
    /\ Len(ret) = 1
    /\ loads(data_file[1]) # <<>>
    /\ ret' = ret \o <<get_urls_in(call.root, loads(data_file[1])[1],
                                    call.after_date)>>
    /\ UNCHANGED <<call, programVars>>

PureNext == CallGetUrls \/ CallGetName \/ CallSaveJson \/ CallLoadGetUrls

PureSpec == PureInit /\ [][PureNext]_vars

(***************************************************************************)
(* Resolver claims, stated on the fields the inputs were built from.       *)
(***************************************************************************)
\* the day of a time as a number, monotone in year, month and day
DayNo(c) == ((c[1] * 12) + c[2]) * 31 + c[3]

\* the millisecond of the day of a time
MsOfDay(c) == ((((c[4] * 60) + c[5]) * 60 + c[6]) * 1000) + c[7]

\* item i of the call lies strictly after midnight of the cutoff day
After(i) ==
    \/ call.day = <<>>
    \/ DayNo(call.times[i]) > DayNo(call.day)
    \/ /\ DayNo(call.times[i]) = DayNo(call.day)
       /\ MsOfDay(call.times[i]) > 0

\* the attachments item i carries, none when the key is missing
Carried(i) ==
    IF call.items[i].contents.attachments = <<>> THEN <<>>
    ELSE call.items[i].contents.attachments[1]

\* the attachment URLs of the items from i on that lie after the cutoff
RECURSIVE ExpectedPaths(_)
ExpectedPaths(i) ==
    IF i > Len(call.items) THEN <<>>
    ELSE (IF After(i) THEN [k \in 1..Len(Carried(i)) |-> Carried(i)[k].path]
          ELSE <<>>) \o ExpectedPaths(i + 1)

Returned == call.fn = "get_urls" /\ ret # <<>>

ExampleTimes == <<T_2018_01_01, T_2018_08_01, T_2019_01_01>>

\* C8: get_urls keeps exactly the items whose time is strictly later than
\* midnight of the cutoff day (all of them without a cutoff): the URLs of
\* its tasks are the attachment URLs of those items, in order.  For the
\* times 2018-01-01, 2018-08-01, 2019-01-01 and the cutoff 1-Jul-2018 the
\* tasks are those of the second and the third item.
C8_CutoffFilter ==
    Returned =>
        /\ ~ret[1].raised
        /\ [j \in 1..Len(ret[1].urls) |-> ret[1].urls[j][1]] = ExpectedPaths(1)
        /\ (call.times = ExampleTimes /\ call.after_date = <<AFTER_DATE>>) =>
               [j \in 1..Len(ret[1].urls) |-> ret[1].urls[j][1]]
                   = <<ItemUrl(2), ItemUrl(3)>>

\* an item at midnight of the cutoff day is dropped, a millisecond later kept
C8_Witness ==
    /\ Returned
    /\ call.after_date = <<AFTER_DATE>>
    /\ call.times = <<T_2018_01_01, <<2018, 7, 1, 0, 0, 0, 0>>,
                      <<2018, 7, 1, 0, 0, 0, 1>>>>
    /\ Len(ret[1].urls) = 1
    /\ ret[1].urls[1][1] = ItemUrl(3)

\* the text after the third '/' of a URL, empty if there is none
AfterThirdSlash(url) ==
    LET ks == {i \in 1..Len(url) :
                  /\ url[i] = "/"
                  /\ Cardinality({j \in 1..i : url[j] = "/"}) = 3}
    IN  IF ks = {} THEN <<>>
        ELSE SubSeq(url, (CHOOSE k \in ks : TRUE) + 1, Len(url))

Underscored(s) ==
    [i \in 1..Len(s) |-> IF s[i] \in {"/", "-"} THEN "_" ELSE s[i]]

NameReturned == call.fn = "get_name_from_url" /\ ret # <<>>

\* C9 as stated: https://host/bucket/x/y/photo-1.jpg yields y_photo_1.jpg
C9_ExampleAsStated ==
    (NameReturned /\ call.url = ExampleUrl) =>
        ret[1] = <<"y", "_", "p", "h", "o", "t", "o", "_", "1", ".", "j", "p", "g">>

\* C9, amended: the derived filename is what follows the third '/' of the
\* URL (the elements of url.split('/') from index 3 on, the first three
\* being 'https:', '' and the host), with every '/' and '-' replaced by
\* '_'; https://host/bucket/x/y/photo-1.jpg yields bucket_x_y_photo_1.jpg.
C9_NameFromUrl ==
    NameReturned =>
        /\ ret[1] = Underscored(AfterThirdSlash(call.url))
        /\ call.url = ExampleUrl =>
               ret[1] = <<"b", "u", "c", "k", "e", "t", "_", "x", "_", "y", "_",
                          "p", "h", "o", "t", "o", "_", "1", ".", "j", "p", "g">>

C9_Witness ==
    /\ NameReturned
    /\ call.url = ExampleUrl
    /\ Len(ret[1]) = 22
    /\ ret[1][1] = "b"

\* the filename of an attachment: its metadata filename, else from its URL
NameFor(a) ==
    IF a.metadata # <<>> /\ a.metadata[1].filename # <<>>
    THEN a.metadata[1].filename[1]
    ELSE Underscored(AfterThirdSlash(a.path))

NoSlash(s) == [i \in 1..Len(s) |-> IF s[i] = "/" THEN "_" ELSE s[i]]

\* MM-DD-YYYY of a time
DayText(c) ==
    TwoDigits(c[2]) \o <<"-">> \o TwoDigits(c[3]) \o <<"-">> \o FourDigits(c[1])

\* <root>/<group>/<MM-DD-YYYY>-<filename> for attachment a of item i
DestFor(i, a) ==
    call.root \o <<"/">> \o NoSlash(call.items[i].headerSubtext) \o <<"/">>
        \o DayText(call.times[i]) \o <<"-">> \o NameFor(a)

RECURSIVE ExpectedDests(_)
ExpectedDests(i) ==
    IF i > Len(call.items) THEN <<>>
    ELSE (IF After(i) THEN [k \in 1..Len(Carried(i)) |-> DestFor(i, Carried(i)[k])]
          ELSE <<>>) \o ExpectedDests(i + 1)

\* the call of the example: Room A/B, 2020-05-10, img.png, root out
IsPathExample ==
    /\ call.fn = "get_urls"
    /\ call.root = Out
    /\ Len(call.items) = 1
    /\ call.items[1].headerSubtext = RoomAB
    /\ call.times[1] = T_2020_05_10
    /\ call.items[1].contents.attachments = << <<Named(Url1, ImgPng)>> >>

\* C10: every task's destination is <root>/<group>/<MM-DD-YYYY>-<filename>,
\* the group being headerSubtext with '/' replaced by '_', so that the
\* destination has exactly two '/' after the root; the example yields
\* out/Room A_B/05-10-2020-img.png.
C10_Destination ==
    Returned =>
        /\ [j \in 1..Len(ret[1].urls) |-> ret[1].urls[j][2]] = ExpectedDests(1)
        /\ \A j \in 1..Len(ret[1].urls) :
               Cardinality({k \in 1..Len(ret[1].urls[j][2]) :
                               ret[1].urls[j][2][k] = "/"})
                   = Cardinality({k \in 1..Len(call.root) : call.root[k] = "/"}) + 2
        /\ IsPathExample =>
               ret[1].urls[1][2] =
                   <<"o", "u", "t", "/", "R", "o", "o", "m", " ", "A", "_", "B", "/",
                     "0", "5", "-", "1", "0", "-", "2", "0", "2", "0", "-",
                     "i", "m", "g", ".", "p", "n", "g">>

C10_Witness ==
    /\ Returned
    /\ IsPathExample
    /\ Len(ret[1].urls) = 1
    /\ Len(ret[1].urls[1][2]) = 31

(***************************************************************************)
(* The snapshot round trip.                                                *)
(***************************************************************************)
Reloaded == call.fn = "reload" /\ Len(ret) = 2

C12_CounterEqualsFinished == pbar = Cardinality(Finished)

\* C12, amended: the progress counter equals the number of finished tasks
\* that as_completed has handed to the loop, which never exceeds the number
\* of tasks that have finished (with success or with an error) nor N; it
\* changes only by growing by one, for one more finished task; and when
\* download_urls has returned it equals N, every task having finished.
C12_Progress ==
    /\ [](/\ pbar = Cardinality(yielded)
          /\ yielded \subseteq Finished
          /\ pbar <= Cardinality(Finished)
          /\ pbar <= Len(urls)
          /\ pc \in {"print_done", "done"} =>
                 (pbar = Len(urls) /\ Cardinality(Finished) = Len(urls)))
    /\ [][pbar' # pbar =>
             /\ pbar' = pbar + 1
             /\ \E t \in Finished : t \notin yielded /\ yielded' = yielded \cup {t}
             /\ task' = task]_vars

\* a failed and a successful task are both counted while a third one, which
\* has finished too, is not counted yet
C12_Witness ==
    /\ Len(urls) = 3
    /\ Finished = 1..3
    /\ \E t \in yielded : task[t] = "failed"
    /\ \E t \in yielded : task[t] = "ok"
    /\ pbar = 2

\* C13: at no time do more than NUM_JOBS tasks execute; while NUM_JOBS of
\* them execute no further task is started, and a submitted task that is
\* not executing waits in the queue until one of them has finished.
C13_PoolWidth ==
    /\ [](Cardinality(Running) <= NUM_JOBS)
    /\ [][\A t \in Tasks :
             (task[t] = "queued" /\ task'[t] # "queued") =>
                 Cardinality(Running) < NUM_JOBS]_vars

\* the pool is full and a submitted task waits
C13_Witness ==
    /\ Cardinality(Running) = NUM_JOBS
    /\ \E t \in Tasks : task[t] = "queued"

\* how far a future has come
Stage(s) ==
    CASE s = "pending" -> 0
      [] s = "queued" -> 1
      [] s = "opened" -> 2
      [] s = "fetched" -> 3
      [] OTHER -> 4

\* C14: every task is submitted once, in the order of the list, is started
\* at most once and never goes back: a task that has finished, failed or
\* not, stays as it finished and is neither queued nor started again; when
\* download_urls has returned every task has been attempted.
C14_AttemptedOnce ==
    /\ [](/\ \A t \in Tasks : (task[t] # "pending") <=> (t <= submitted)
          /\ pc \in {"print_done", "done"} => Finished = Tasks)
    /\ [][\A t \in DOMAIN task :
             /\ Stage(task'[t]) >= Stage(task[t])
             /\ task[t] \in {"ok", "failed"} => task'[t] = task[t]
             /\ (task[t] = "pending" /\ task'[t] # "pending") =>
                    (task'[t] = "queued" /\ submitted' = submitted + 1)]_vars

\* the run is over, one task failed, and it is still failed
C14_Witness ==
    /\ pc = "done"
    /\ Len(urls) = 3
    /\ submitted = 3
    /\ \E t \in Tasks : task[t] = "failed"
    /\ \E t \in Tasks : task[t] = "ok"

(***************************************************************************)
(* One task per attachment, and the name each task is stored under.        *)
(***************************************************************************)
\* the (item, attachment) index pairs of the kept items from i on, in order
RECURSIVE KeptAttachments(_)
KeptAttachments(i) ==
    IF i > Len(call.items) THEN <<>>
    ELSE (IF After(i) THEN [k \in 1..Len(Carried(i)) |-> <<i, k>>] ELSE <<>>)
             \o KeptAttachments(i + 1)

RECURSIVE SumLens(_)
SumLens(i) ==
    IF i > Len(call.items) THEN 0
    ELSE (IF After(i) THEN Len(Carried(i)) ELSE 0) + SumLens(i + 1)

\* C15: get_urls returns one task per attachment of every kept item and no
\* other: task j carries the URL of the j-th attachment in item order and,
\* within an item, attachment order; its destination is in the folder of
\* that item; the number of tasks is the total number of attachments of the
\* kept items, a kept item without the attachments key or with an empty
\* list adding none.
C15_OneTaskPerAttachment ==
    Returned =>
        LET out == ret[1].urls
            exp == KeptAttachments(1)
        IN  /\ Len(out) = SumLens(1)
            /\ Len(out) = Len(exp)
            /\ \A j \in 1..Len(exp) :
                   LET i == exp[j][1]
                       a == Carried(i)[exp[j][2]]
                   IN  /\ out[j][1] = a.path
                       /\ out[j][2] = DestFor(i, a)

\* a kept item with two attachments after a kept item with an empty list
C15_Witness ==
    /\ Returned
    /\ Len(call.items) = 2
    /\ After(1) /\ After(2)
    /\ call.items[1].contents.attachments = << <<>> >>
    /\ Len(Carried(2)) = 2
    /\ Len(ret[1].urls) = 2
    /\ ret[1].urls[1][1] = Carried(2)[1].path
    /\ ret[1].urls[2][1] = Carried(2)[2].path

\* the text of a destination after its <root>/<group>/<MM-DD-YYYY>- part
NamePart(i, dest) ==
    SubSeq(dest,
           Len(call.root) + Len(call.items[i].headerSubtext) + 14, Len(dest))

HasMetadataName(a) == a.metadata # <<>> /\ a.metadata[1].filename # <<>>

\* C16: the filename of a task's destination is the attachment's metadata
\* filename, character for character (its hyphens stay), whenever the
\* attachment has a metadata object with a filename key; otherwise it is
\* the part of the URL after the third '/' with '/' and '-' replaced by '_'.
C16_FilenameChoice ==
    Returned =>
        LET out == ret[1].urls
            exp == KeptAttachments(1)
        IN  /\ Len(out) = Len(exp)
            /\ \A j \in 1..Len(exp) :
                   LET i == exp[j][1]
                       a == Carried(i)[exp[j][2]]
                   IN  NamePart(i, out[j][2]) =
                           IF HasMetadataName(a)
                           THEN a.metadata[1].filename[1]
                           ELSE Underscored(AfterThirdSlash(a.path))

\* a metadata filename with a hyphen, next to a name derived from the URL
\* and a metadata object without a filename
C16_Witness ==
    /\ Returned
    /\ Len(call.items) = 2
    /\ Len(ret[1].urls) = 3
    /\ Carried(1) = <<Named(Url2, <<"f", "-", "1">>), Plain(Url2)>>
    /\ Carried(2) = <<Unnamed(Url1)>>
    /\ NamePart(1, ret[1].urls[1][2]) = <<"f", "-", "1">>
    /\ NamePart(1, ret[1].urls[2][2]) =
           <<"b", "_", "x", "_", "p", "_", "2", ".", "j", "p", "g">>
    /\ NamePart(2, ret[1].urls[3][2]) =
           <<"b", "_", "x", "_", "p", "_", "1", ".", "j", "p", "g">>

(***************************************************************************)
(* main: reuse of the snapshot or a new traversal.                         *)
(***************************************************************************)
\* main has taken the branch that loads the snapshot
Reusing ==
    /\ pc # "main"
    /\ answer \in {<< <<"n">> >>, << <<"N">> >>}

\* main has taken the branch that calls scrape
Rescraping == pc # "main" /\ ~Reusing

\* C17 as stated: in every case other than a reuse the traversal runs and
\* the snapshot is overwritten wholesale, so a run that has ended on that
\* branch has left the snapshot holding the list of its traversal.
C17_AlwaysOverwritten ==
    (Rescraping /\ pc \in {"crashed", "done"}) =>
        /\ fetched # <<>>
        /\ data_file = <<dumps(items)>>

\* C17, amended: main loads the snapshot exactly when the file exists and
\* the answer is 'n' or 'N'; then no page is ever fetched and the file stays
\* as it was, its list being the one resolved.  In every other case (no
\* file, and then no prompt, or any other answer, the empty one included)
\* scrape is called, starting at the head URL, and once scrape has returned
\* the snapshot holds exactly the list of that traversal.
C17_ReuseOrRescrape ==
    /\ [](/\ Reusing => (fetched = <<>> /\ feed = NoFeed /\ data_file # <<>>)
          /\ (Rescraping /\ fetched # <<>>) => fetched[1] = FEED_URL
          /\ (Rescraping /\ pc \in {"get_urls", "download_urls",
                                    "print_done", "done"}) =>
                 (fetched # <<>> /\ data_file = <<dumps(items)>>))
    /\ [][/\ (pc = "main" /\ pc' # "main") =>
                /\ (answer' = <<>>) <=> (data_file = <<>>)
                /\ Reusing' <=>
                       (data_file # <<>> /\ answer' \in {<< <<"n">> >>, << <<"N">> >>})
                /\ Reusing' =>
                       /\ pc' \in {"get_urls", "crashed"}
                       /\ pc' = "get_urls" => data_file = <<dumps(items')>>
                /\ Rescraping' => (pc' = "get_items" /\ cur' = FEED_URL)
          /\ (Reusing \/ Reusing') => data_file' = data_file]_vars

\* the operator answered N: the run is over, nothing was fetched and the
\* snapshot holds the list that was resolved
C17_Witness ==
    /\ pc = "done"
    /\ answer = << <<"N">> >>
    /\ fetched = <<>>
    /\ data_file = <<dumps(items)>>
    /\ Len(urls) = 3

(***************************************************************************)
(* A cursor chain that runs into a cycle without the head URL.             *)
(***************************************************************************)
LastFetched == fetched[Len(fetched)]

\* the page fetched last was served and its cursor leads into a set of older
\* URLs whose pages are all served and whose cursors all lead back into it
InCycle ==
    /\ fetched # <<>>
    /\ Served(LastFetched)
    /\ CursorAt(LastFetched) # <<>>
    /\ \E C \in SUBSET OlderUrls :
          /\ CursorAt(LastFetched)[1] \in C
          /\ \A u \in C :
                /\ Served(u)
                /\ CursorAt(u) # <<>>
                /\ CursorAt(u)[1] \in C

\* C18: once the cursor chain is in a cycle without the head URL scrape
\* does not return: the next fetch is always possible (up to the number of
\* fetches the model allows), every step is one more fetch of a page of the
\* cycle, whose items are appended to the list once more, the chain stays
\* in the cycle, and the snapshot is not written.
C18_CycleNeverReturns ==
    /\ [](InCycle =>
            /\ pc = "get_items"
            /\ cur = CursorAt(LastFetched)[1]
            /\ \E k \in 1..Len(fetched) : fetched[k] = cur
            /\ Len(fetched) < MaxFetches => ENABLED GetItems)
    /\ [][InCycle =>
             /\ InCycle'
             /\ fetched' = Append(fetched, cur)
             /\ items' = items \o feed[cur].items
             /\ Len(items') >= Len(items)
             /\ data_file' = data_file]_vars

\* a cycle of one older page with one item has been fetched three times:
\* the item is in the list three times and no snapshot has been written
C18_Witness ==
    /\ InCycle
    /\ Len(fetched) = 4
    /\ fetched[2] = fetched[3] /\ fetched[3] = fetched[4]
    /\ Len(items) >= 3
    /\ items[Len(items)] = items[Len(items) - 1]
    /\ data_file = <<>>

(***************************************************************************)
(* The destination file of a download whose request fails.                 *)
(***************************************************************************)
\* C19: when the request of a task fails (the task had created the parent
\* directory and opened its destination file before), the destination file
\* exists and is empty.
C19_FailedFetchLeavesEmpty ==
    [][\A t \in Tasks :
          (task[t] = "opened" /\ task'[t] = "failed") =>
              /\ ParentOf(DestOf(t)) \in dirs'
              /\ DestOf(t) \in DOMAIN files'
              /\ files'[DestOf(t)] = <<>>]_vars

====
